---- MODULE Spec2Model ----
(***************************************************************************)
(* Model of smartseeds.decorators.smartsuper: the descriptor that calls    *)
(* the superclass implementation of a method before or after the           *)
(* overriding body, and the class decorator that wraps every override.     *)
(*                                                                         *)
(* The state is a small class hierarchy under construction: each class has *)
(* an ordered __dict__, smartsuper instances live in a heap, and function  *)
(* objects carry the __smartsuper_mode__ attribute.                        *)
(*                                                                         *)
(* A second part models dict_utils.dictExtract and the wrapper built by    *)
(* decorators.extract_kwargs on a dictionary of keyword arguments.         *)
(***************************************************************************)
EXTENDS Integers, Sequences, FiniteSets, TLC

VARIABLES shape, cur, dict, heap, mode, last, source, kwout, held, patches

vars == <<shape, cur, dict, heap, mode, last, source, kwout, held, patches>>

(***************************************************************************)
(* Bounds.                                                                 *)
(***************************************************************************)
\* total number of members declared in all class bodies together
MaxDecl == 3

\* how many of them may be data attributes or nested classes
MaxOther == 1

\* how many of them may be objects that already exist under another name
MaxAlias == 1

\* how many of them may be functions whose body raises
MaxRaising == 1

\* how many keyword arguments a call passes, and how many values they take
MaxKeys == 2
MaxVal == 2

\* how many times a class is patched after its definition
MaxPatch == 1

(***************************************************************************)
(* The universe: classes, attribute names, call arguments.                 *)
(***************************************************************************)
Types == {"A", "B", "C", "D"}

None == "None"

\* attribute names are strings of characters
NameMethod == <<"m">>
NameSpecial == <<"_", "_", "x", "_", "_">>
Names == {NameMethod, NameSpecial}
NoName == <<>>

Shapes == {"chain", "diamond"}

\* the class statements in the order they run: either the chain A, B(A), C(B)
\* or the diamond A, B(A), C(A), D(B, C)
ClassOrder(sh) ==
    IF sh = "chain" THEN <<"A", "B", "C">> ELSE <<"A", "B", "C", "D">>

\* type.__mro__ without the trailing object, which has none of Names
MroOf(sh, T) ==
    IF sh = "chain"
    THEN CASE T = "A" -> <<"A">>
           [] T = "B" -> <<"B", "A">>
           [] T = "C" -> <<"C", "B", "A">>
           [] OTHER   -> <<T>>
    ELSE CASE T = "A" -> <<"A">>
           [] T = "B" -> <<"B", "A">>
           [] T = "C" -> <<"C", "A">>
           [] T = "D" -> <<"D", "B", "C", "A">>
           [] OTHER   -> <<T>>

Mro(T) == MroOf(shape, T)

\* (*args, **kwargs) of a call
NoArgs == [args |-> <<>>, kwargs |-> <<>>]
SomeArgs == [args |-> <<5, 7>>, kwargs |-> << <<"y", 20>> >>]
ArgSets == {NoArgs, SomeArgs}

(***************************************************************************)
(* Values: function objects, class attributes, smartsuper instances.       *)
(***************************************************************************)
\* where a function defined outside every class body lives
Module == "module"

\* the function defined by "def n" in the body of class T or in the module
Funcs == (Types \cup {Module}) \X Names
NoFn == <<None, NoName>>

Absent == [kind |-> "absent", fn |-> NoFn, id |-> 0]
Function(f) == [kind |-> "function", fn |-> f, id |-> 0]
Descriptor(i) == [kind |-> "smartsuper", fn |-> NoFn, id |-> i]

\* a function whose body ends with "raise"
Raising(f) == [kind |-> "function", fn |-> f, id |-> 1]

\* the class object T
TypeObj(T) == [kind |-> "type", fn |-> <<T, NoName>>, id |-> 0]

\* the class defined by "class n: pass" in the body of class T
Nested(f) == [kind |-> "type", fn |-> f, id |-> 0]

\* a plain data attribute: the integer v
Data(v) == [kind |-> "data", fn |-> NoFn, id |-> v]

\* a callable test that accepts smartsuper instances
Callable_Permissive(attr) == attr.kind \in {"function", "type", "smartsuper"}

\* builtin callable(): true of functions and classes; a smartsuper instance
\* defines no __call__
Callable(attr) == attr.kind \in {"function", "type"}

\* a wrapper that calls the parent without testing it
Truthy_Always(attr) == TRUE

\* bool(value) of an attribute value read through super()
Truthy(attr) ==
    CASE attr.kind = "absent" -> FALSE
      [] attr.kind = "data"   -> attr.id # 0
      [] OTHER                -> TRUE

\* str.startswith / str.endswith
StartsWith(s, p) == Len(s) >= Len(p) /\ SubSeq(s, 1, Len(p)) = p
EndsWith(s, p) == Len(s) >= Len(p) /\ SubSeq(s, Len(s) - Len(p) + 1, Len(s)) = p

\* a scan that skips no name
IsMagic_Never(name) == FALSE

\* name.startswith("__") and name.endswith("__")
IsMagic(name) == StartsWith(name, <<"_", "_">>) /\ EndsWith(name, <<"_", "_">>)

\* what a function body does: it records its call and returns its own value
Entry(f, objT, a) == [fn |-> f, self |-> objT, args |-> a.args, kwargs |-> a.kwargs]
Ret(f) == <<"ret", f>>

\* what a call that raised has returned: nothing
NoValue == <<"none", NoFn>>

(***************************************************************************)
(* Class dictionaries and attribute lookup.                                *)
(***************************************************************************)
\* cls.__dict__.get(name)
DictGet(D, T, name) ==
    LET idx == {i \in 1..Len(D[T]) : D[T][i].name = name}
    IN  IF idx = {} THEN Absent ELSE D[T][CHOOSE i \in idx : TRUE].attr

\* first attribute called name in the classes of the sequence mro
RECURSIVE LookupIn(_, _, _)
LookupIn(D, mro, name) ==
    IF mro = <<>> THEN Absent
    ELSE IF DictGet(D, Head(mro), name) # Absent THEN DictGet(D, Head(mro), name)
    ELSE LookupIn(D, Tail(mro), name)

\* hasattr(base, name)
HasAttr(D, base, name) == LookupIn(D, Mro(base), name) # Absent

\* the part of the mro strictly after cls
RECURSIVE MroAfter(_, _)
MroAfter(mro, cls) ==
    IF mro = <<>> THEN <<>>
    ELSE IF Head(mro) = cls THEN Tail(mro)
    ELSE MroAfter(Tail(mro), cls)

\* a lookup that follows the owner's ancestor order instead of the instance's
SuperGetattr_Static(D, objT, owner, name) == LookupIn(D, MroAfter(Mro(owner), owner), name)

\* getattr(super(owner, obj), name, None) for an instance obj of class objT
SuperGetattr(D, objT, owner, name) == LookupIn(D, MroAfter(Mro(objT), owner), name)

\* getattr(attr, "__smartsuper_mode__", None)
ModeAttr(M, attr) == IF attr.kind \in {"function", "type"} THEN M[attr.fn] ELSE "none"

\* attr.__smartsuper_mode__ = "before"
TagBefore(M, attr) ==
    IF attr.kind \in {"function", "type"} THEN [M EXCEPT ![attr.fn] = "before"] ELSE M

(***************************************************************************)
(* smartsuper: construction, __set_name__, __get__ and the wrapper.        *)
(***************************************************************************)
\* a constructor that sets the wrong call order
NewBefore_CallsAfter(attr) == [method |-> attr, after_call |-> TRUE, owner |-> None, name |-> NoName]

\* smartsuper.__init__: a fresh instance that calls the parent first
NewBefore(attr) == [method |-> attr, after_call |-> FALSE, owner |-> None, name |-> NoName]

\* an after constructor that leaves the default call order
NewAfter_CallsBefore(attr) == [method |-> attr, after_call |-> FALSE, owner |-> None, name |-> NoName]

\* smartsuper.after: a fresh instance that calls the parent last
NewAfter(attr) == [method |-> attr, after_call |-> TRUE, owner |-> None, name |-> NoName]

\* smartsuper.__set_name__
SetName(b, owner, name) == [b EXCEPT !.owner = owner, !.name = name]

Outcome(tr, r, e) == [trace |-> tr, result |-> r, error |-> e]

\* attr(obj, *args, **kwargs) for a value stored in a class __dict__; a class
\* with an empty body takes no arguments
CallAttr(attr, objT, a) ==
    CASE attr = Raising(attr.fn)  -> Outcome(<<Entry(attr.fn, objT, a)>>, NoValue, "BodyError")
      [] attr = Function(attr.fn) -> Outcome(<<Entry(attr.fn, objT, a)>>, Ret(attr.fn), None)
      [] OTHER                    -> Outcome(<<>>, NoValue, "TypeError")

\* self.method(obj, *args, **kwargs)
CallMethod(b, objT, a) == CallAttr(b.method, objT, a)

\* calling the value obtained from an attribute lookup on an instance of objT;
\* a smartsuper instance yields the wrapper of __get__
RECURSIVE Invoke(_, _, _, _, _)

\* a parent call that forgets the caller's arguments
CallParent_NoArgs(D, H, parent_method, objT, a) == Invoke(D, H, parent_method, objT, NoArgs)

\* parent_method(*args, **kwargs)
CallParent(D, H, parent_method, objT, a) == Invoke(D, H, parent_method, objT, a)

\* a before branch that swallows the parent's exception
WrapperBefore_SwallowsError(D, H, b, parent_method, objT, a) ==
    IF Truthy(parent_method)
    THEN LET p == CallParent(D, H, parent_method, objT, a)
             r == CallMethod(b, objT, a)
         IN  Outcome(p.trace \o r.trace, r.result, r.error)
    ELSE CallMethod(b, objT, a)

\* the branch "if not self.after_call" of the wrapper
WrapperBefore(D, H, b, parent_method, objT, a) ==
    IF Truthy(parent_method)
    THEN LET p == CallParent(D, H, parent_method, objT, a)
         IN  IF p.error # None THEN p
             ELSE LET r == CallMethod(b, objT, a)
                  IN  Outcome(p.trace \o r.trace, r.result, r.error)
    ELSE CallMethod(b, objT, a)

\* an after branch that returns what the parent returned
WrapperAfter_ParentResult(D, H, b, parent_method, objT, a) ==
    LET result == CallMethod(b, objT, a)
    IN  IF result.error # None THEN result
        ELSE IF Truthy(parent_method)
             THEN LET p == CallParent(D, H, parent_method, objT, a)
                  IN  Outcome(result.trace \o p.trace, p.result, p.error)
             ELSE result

\* the branch "else" of the wrapper
WrapperAfter(D, H, b, parent_method, objT, a) ==
    LET result == CallMethod(b, objT, a)
    IN  IF result.error # None THEN result
        ELSE IF Truthy(parent_method)
             THEN LET p == CallParent(D, H, parent_method, objT, a)
                  IN  IF p.error # None
                      THEN Outcome(result.trace \o p.trace, NoValue, p.error)
                      ELSE Outcome(result.trace \o p.trace, result.result, None)
             ELSE result

\* a wrapper that ignores after_call
Wrapper_IgnoresMode(D, H, b, objT, a) ==
    IF \A k \in 1..Len(Mro(objT)) : Mro(objT)[k] # b.owner
    THEN Outcome(<<>>, NoValue, "TypeError")
    ELSE WrapperBefore(D, H, b, SuperGetattr(D, objT, b.owner, b.name), objT, a)

\* the wrapper returned by smartsuper.__get__(obj, objtype), called with a;
\* super(None, obj) and super(cls, obj) for an unrelated cls raise TypeError
Wrapper(D, H, b, objT, a) ==
    IF \A k \in 1..Len(Mro(objT)) : Mro(objT)[k] # b.owner
    THEN Outcome(<<>>, NoValue, "TypeError")
    ELSE LET parent_method == SuperGetattr(D, objT, b.owner, b.name)
         IN  IF ~b.after_call
             THEN WrapperBefore(D, H, b, parent_method, objT, a)
             ELSE WrapperAfter(D, H, b, parent_method, objT, a)

\* what an attribute access has in hand: the smartsuper instance found, the
\* class of the instance it was found on, and the classes as they were then
Held(i, objT, D) == [id |-> i, objT |-> objT, seen |-> D]
NoHeld == Held(0, None, [T \in Types |-> <<>>])

\* a wrapper that resolved the parent when the attribute was accessed
ParentMethod_AtAccess(D, H, h) ==
    SuperGetattr(h.seen, h.objT, H[h.id].owner, H[h.id].name)

\* line 193, inside wrapper: the parent is resolved when the wrapper runs
ParentMethod(D, H, h) ==
    SuperGetattr(D, h.objT, H[h.id].owner, H[h.id].name)

\* calling the wrapper that __get__ returned earlier, with the classes as
\* they are now
InvokeHeld(D, H, h, a) ==
    LET b == H[h.id]
    IN  IF \A k \in 1..Len(Mro(h.objT)) : Mro(h.objT)[k] # b.owner
        THEN Outcome(<<>>, NoValue, "TypeError")
        ELSE IF ~b.after_call
             THEN WrapperBefore(D, H, b, ParentMethod(D, H, h), h.objT, a)
             ELSE WrapperAfter(D, H, b, ParentMethod(D, H, h), h.objT, a)

\* the parent lookups that start at smartsuper instance i are still finding
\* smartsuper instances after n more steps
RECURSIVE Recurs(_, _, _, _, _)
Recurs(D, H, i, objT, n) ==
    IF \A k \in 1..Len(Mro(objT)) : Mro(objT)[k] # H[i].owner THEN FALSE
    ELSE LET p == SuperGetattr(D, objT, H[i].owner, H[i].name)
         IN  IF p.kind # "smartsuper" THEN FALSE
             ELSE IF n = 0 THEN TRUE
             ELSE Recurs(D, H, p.id, objT, n - 1)

\* the wrapper of instance i comes back to an instance it already entered
\* and never returns: the interpreter raises RecursionError (the bodies run
\* until then are not recorded)
Loops(D, H, i, objT) == Recurs(D, H, i, objT, Len(H))

Invoke(D, H, attr, objT, a) ==
    CASE attr.kind = "function"   -> CallAttr(attr, objT, a)
      [] attr.kind = "smartsuper" -> IF Loops(D, H, attr.id, objT)
                                     THEN Outcome(<<>>, NoValue, "RecursionError")
                                     ELSE Wrapper(D, H, H[attr.id], objT, a)
      [] attr.kind = "type"       -> IF a = NoArgs
                                     THEN Outcome(<<>>, <<"instance", attr.fn>>, None)
                                     ELSE Outcome(<<>>, NoValue, "TypeError")
      [] OTHER                    -> Outcome(<<>>, NoValue, "TypeError")

(***************************************************************************)
(* smartsuper._decorate_class                                              *)
(***************************************************************************)
\* a loop body that wraps without looking at the base classes
DecorateItem_NoBaseCheck(S, T, i) ==
    LET name == S.dict[T][i].name
        attr == S.dict[T][i].attr
        id   == Len(S.heap) + 1
    IN  IF IsMagic(name) \/ ~Callable(attr) \/ ModeAttr(S.mode, attr) # "none" THEN S
        ELSE [dict |-> [S.dict EXCEPT ![T][i].attr = Descriptor(id)],
              heap |-> Append(S.heap, SetName(NewBefore(attr), T, name)),
              mode |-> TagBefore(S.mode, attr)]

\* a loop body without the callable test
DecorateItem_NoCallableCheck(S, T, i) ==
    LET name == S.dict[T][i].name
        attr == S.dict[T][i].attr
        id   == Len(S.heap) + 1
    IN  IF IsMagic(name) \/ ModeAttr(S.mode, attr) # "none" THEN S
        ELSE IF \E k \in 2..Len(Mro(T)) : HasAttr(S.dict, Mro(T)[k], name)
             THEN [dict |-> [S.dict EXCEPT ![T][i].attr = Descriptor(id)],
                   heap |-> Append(S.heap, SetName(NewBefore(attr), T, name)),
                   mode |-> TagBefore(S.mode, attr)]
             ELSE S

\* a loop body that does not look at the mode tag
DecorateItem_IgnoresTags(S, T, i) ==
    LET name == S.dict[T][i].name
        attr == S.dict[T][i].attr
        id   == Len(S.heap) + 1
    IN  IF IsMagic(name) \/ ~Callable(attr) THEN S
        ELSE IF \E k \in 2..Len(Mro(T)) : HasAttr(S.dict, Mro(T)[k], name)
             THEN [dict |-> [S.dict EXCEPT ![T][i].attr = Descriptor(id)],
                   heap |-> Append(S.heap, SetName(NewBefore(attr), T, name)),
                   mode |-> TagBefore(S.mode, attr)]
             ELSE S

\* the body of the loop for the i-th item of target_class.__dict__
DecorateItem(S, T, i) ==
    LET name == S.dict[T][i].name
        attr == S.dict[T][i].attr
        id   == Len(S.heap) + 1
    IN  IF IsMagic(name) THEN S
        ELSE IF ~Callable(attr) THEN S
        ELSE IF ModeAttr(S.mode, attr) = "after" THEN S
        ELSE IF \E k \in 2..Len(Mro(T)) : HasAttr(S.dict, Mro(T)[k], name)
             THEN IF ModeAttr(S.mode, attr) = "before" THEN S
                  ELSE [dict |-> [S.dict EXCEPT ![T][i].attr = Descriptor(id)],
                        heap |-> Append(S.heap, SetName(NewBefore(attr), T, name)),
                        mode |-> TagBefore(S.mode, attr)]
             ELSE S

RECURSIVE DecorateFrom(_, _, _)
DecorateFrom(S, T, i) ==
    IF i > Len(S.dict[T]) THEN S
    ELSE DecorateFrom(DecorateItem(S, T, i), T, i + 1)

DecorateClassResult(D, H, M, T) == DecorateFrom([dict |-> D, heap |-> H, mode |-> M], T, 1)

\* cls._decorate_class(T): the classes afterwards and the returned object
DecorateClassCall(D, H, M, T) == [state |-> DecorateClassResult(D, H, M, T), ret |-> TypeObj(T)]

\* smartsuper.all(T)
SmartsuperAll(D, H, M, T) == DecorateClassCall(D, H, M, T)

\* a constructor that takes every target for a method
SmartsuperNew_NoClassCheck(D, H, M, target) ==
    [state |-> [dict |-> D, heap |-> Append(H, NewBefore(target)), mode |-> TagBefore(M, target)],
     ret |-> Descriptor(Len(H) + 1)]

\* smartsuper(target): __new__ decorates a class and returns it, or makes an
\* instance that __init__ fills in
SmartsuperNew(D, H, M, target) ==
    IF target.kind = "type"
    THEN IF target.fn[2] = NoName
         THEN DecorateClassCall(D, H, M, target.fn[1])
         ELSE [state |-> [dict |-> D, heap |-> H, mode |-> M], ret |-> target]
    ELSE [state |-> [dict |-> D, heap |-> Append(H, NewBefore(target)),
                     mode |-> TagBefore(M, target)],
          ret |-> Descriptor(Len(H) + 1)]

(***************************************************************************)
(* Dictionaries: insertion-ordered sequences of items with distinct keys.  *)
(***************************************************************************)
Item(k, v) == [key |-> k, val |-> v]

\* the values a dictionary holds: integers, None and dictionaries
IntVal(n) == [kind |-> "int", n |-> n, d |-> <<>>]
NoneVal == [kind |-> "none", n |-> 0, d |-> <<>>]
DictVal(d) == [kind |-> "dict", n |-> 0, d |-> d]

\* list(d.keys())
KeysOf(d) == [i \in 1..Len(d) |-> d[i].key]

\* key in d
HasKey(d, k) == \E i \in 1..Len(d) : d[i].key = k

\* d.get(k, default)
GetOr(d, k, default) ==
    IF HasKey(d, k) THEN d[CHOOSE i \in 1..Len(d) : d[i].key = k].val ELSE default

\* d without the item of key k
RECURSIVE DelItem(_, _)
DelItem(d, k) ==
    IF d = <<>> THEN <<>>
    ELSE IF Head(d).key = k THEN Tail(d)
    ELSE <<Head(d)>> \o DelItem(Tail(d), k)

\* d[k] = v: an existing key keeps its place, a new one goes last
SetItem(d, k, v) ==
    IF HasKey(d, k)
    THEN [i \in 1..Len(d) |-> IF d[i].key = k THEN Item(k, v) ELSE d[i]]
    ELSE Append(d, Item(k, v))

\* d.update(other), also {**d, **other}
RECURSIVE Update(_, _)
Update(d, other) ==
    IF other = <<>> THEN d
    ELSE Update(SetItem(d, Head(other).key, Head(other).val), Tail(other))

(***************************************************************************)
(* dict_utils.dictExtract                                                  *)
(***************************************************************************)
\* key[len(prefix):]
SliceFrom(key, prefix) == SubSeq(key, Len(prefix) + 1, Len(key))

\* a loop body that reads the value and leaves the source alone
DictExtractStep_NeverPops(st, key, prefix, slice_prefix, pop) ==
    IF StartsWith(key, prefix)
    THEN LET result_key == IF slice_prefix THEN SliceFrom(key, prefix) ELSE key
             value      == GetOr(st.source, key, NoneVal)
         IN  [result |-> SetItem(st.result, result_key, value),
              source |-> st.source]
    ELSE st

\* the body of "for key in keys_to_process"
DictExtractStep(st, key, prefix, slice_prefix, pop) ==
    IF StartsWith(key, prefix)
    THEN LET result_key == IF slice_prefix THEN SliceFrom(key, prefix) ELSE key
             value      == GetOr(st.source, key, NoneVal)
         IN  [result |-> SetItem(st.result, result_key, value),
              source |-> IF pop THEN DelItem(st.source, key) ELSE st.source]
    ELSE st

RECURSIVE DictExtractFrom(_, _, _, _, _)
DictExtractFrom(st, keys_to_process, prefix, slice_prefix, pop) ==
    IF keys_to_process = <<>> THEN st
    ELSE DictExtractFrom(DictExtractStep(st, Head(keys_to_process), prefix, slice_prefix, pop),
                         Tail(keys_to_process), prefix, slice_prefix, pop)

\* dictExtract(source, prefix, slice_prefix, pop): the dictionary returned
\* and the source as the call leaves it
DictExtract(src, prefix, slice_prefix, pop) ==
    LET st == DictExtractFrom([result |-> <<>>, source |-> src], KeysOf(src),
                              prefix, slice_prefix, pop)
    IN  [result |-> st.result, source |-> st.source, error |-> None]

\* the keyword parameters of dictExtract
DictExtractParams == {"slice_prefix", "pop"}

\* dictExtract(source, prefix, **options): a keyword that is no parameter of
\* the function makes the call raise TypeError before the body runs
DictExtractKw(src, prefix, options) ==
    IF \E i \in 1..Len(options) : options[i].key \notin DictExtractParams
    THEN [result |-> <<>>, source |-> src, error |-> "TypeError"]
    ELSE DictExtract(src, prefix,
                     GetOr(options, "slice_prefix", TRUE), GetOr(options, "pop", FALSE))

(***************************************************************************)
(* decorators.extract_kwargs: the wrapper around a plain function, built   *)
(* without _adapter.                                                       *)
(***************************************************************************)
DEFAULT_EXTRACT_OPTIONS ==
    <<Item("slice_prefix", TRUE), Item("pop", FALSE), Item("is_list", FALSE)>>
POP_EXTRACT_OPTIONS ==
    <<Item("slice_prefix", TRUE), Item("pop", TRUE), Item("is_list", FALSE)>>

\* the values an extraction specification gives to a prefix
ValTrue == [kind |-> "true", opts |-> <<>>]
ValFalse == [kind |-> "false", opts |-> <<>>]
ValDict(opts) == [kind |-> "dict", opts |-> opts]

\* f"{extract_key}_kwargs" and f"{extract_key}_"
GrpKey(extract_key) == extract_key \o <<"_", "k", "w", "a", "r", "g", "s">>
PrefixOf(extract_key) == extract_key \o <<"_">>

\* the options the wrapper passes for one specification
ExtractOptions(extract_value) ==
    CASE extract_value.kind = "true" -> POP_EXTRACT_OPTIONS
      [] extract_value.kind = "dict" -> Update(DEFAULT_EXTRACT_OPTIONS, extract_value.opts)
      [] OTHER                       -> DEFAULT_EXTRACT_OPTIONS

\* the loop over specs_to_use.items() from the i-th specification on, then
\* func(*args, **kwargs): the keyword arguments func receives, or the error
RECURSIVE ExtractFrom(_, _, _)
ExtractFrom(kwargs, specs, i) ==
    IF i > Len(specs) THEN [error |-> None, kwargs |-> kwargs]
    ELSE LET grp_key   == GrpKey(specs[i].key)
             popped    == GetOr(kwargs, grp_key, NoneVal)
             rest      == DelItem(kwargs, grp_key)
             current   == IF popped.kind = "dict" THEN popped.d ELSE <<>>
             extracted == DictExtractKw(rest, PrefixOf(specs[i].key),
                                        ExtractOptions(specs[i].val))
         IN  IF extracted.error # None
             THEN [error |-> extracted.error, kwargs |-> rest]
             ELSE ExtractFrom(SetItem(extracted.source, grp_key,
                                      DictVal(Update(current, extracted.result))),
                              specs, i + 1)

\* wrapper(**kwargs) of extract_kwargs(**specs)(func)
ExtractKwargsWrapper(specs, kwargs) == ExtractFrom(kwargs, specs, 1)

\* what the last call on a dictionary was given and what it produced
KwEvent(op, pre, prefix, slice_prefix, pop, specs, r) ==
    [op |-> op, pre |-> pre, prefix |-> prefix, slice_prefix |-> slice_prefix,
     pop |-> pop, specs |-> specs, result |-> r.result, error |-> r.error]

NoOut == KwEvent("none", <<>>, <<>>, FALSE, FALSE, <<>>, [result |-> <<>>, error |-> None])

(***************************************************************************)
(* State machine.                                                          *)
(***************************************************************************)
Building == IF cur <= Len(ClassOrder(shape)) THEN ClassOrder(shape)[cur] ELSE None

Defined == {ClassOrder(shape)[i] : i \in 1..(cur - 1)}

\* the class statements have all run; instances are made and classes are
\* decorated from then on (a class's scan reads only itself and its ancestors)
Loaded == cur > Len(ClassOrder(shape))

RECURSIVE SumLen(_, _)
SumLen(D, S) ==
    IF S = {} THEN 0
    ELSE LET T == CHOOSE x \in S : TRUE IN Len(D[T]) + SumLen(D, S \ {T})

NumDecl == SumLen(dict, Types)

Snapshot == [dict |-> dict, heap |-> heap, mode |-> mode]
NoSnapshot == [dict |-> [T \in Types |-> <<>>], heap |-> <<>>, mode |-> [f \in Funcs |-> "none"]]

Event(op, T, name, a, out, pre) ==
    [op |-> op, T |-> T, name |-> name, args |-> a,
     trace |-> out.trace, result |-> out.result, error |-> out.error, pre |-> pre,
     via |-> None, again |-> FALSE]

\* the record of a class decoration: the entry point used, the object it
\* returned, and whether the same class was decorated just before
ScanEvent(T, via, ret, pre) ==
    [Event("decorate", T, NoName, NoArgs, Outcome(<<>>, ret, None), pre)
        EXCEPT !.via = via, !.again = (last.op = "decorate" /\ last.T = T)]

NoOutcome == Outcome(<<>>, None, None)

Init ==
    /\ shape \in Shapes
    /\ cur = 1
    /\ dict = [T \in Types |-> <<>>]
    /\ heap = <<>>
    /\ mode = [f \in Funcs |-> "none"]
    /\ last = Event("init", None, NoName, NoArgs, NoOutcome, NoSnapshot)
    /\ source = <<>>
    /\ kwout = NoOut
    /\ held = NoHeld
    /\ patches = 0

CanDeclare(name) ==
    /\ Building # None
    /\ NumDecl < MaxDecl
    /\ DictGet(dict, Building, name) = Absent

\* "def name(self, ...)" in the class body
DeclarePlain(name) ==
    /\ CanDeclare(name)
    /\ dict' = [dict EXCEPT ![Building] =
                   Append(@, [name |-> name, attr |-> Function(<<Building, name>>)])]
    /\ last' = Event("declare", None, NoName, NoArgs, NoOutcome, NoSnapshot)
    /\ UNCHANGED <<held, patches, source, kwout, shape, cur, heap, mode>>

\* "@smartsuper def name(self, ...)" in the class body
DeclareBefore(name) ==
    /\ CanDeclare(name)
    /\ LET r == SmartsuperNew(dict, heap, mode, Function(<<Building, name>>))
       IN  /\ heap' = r.state.heap
           /\ mode' = r.state.mode
           /\ dict' = [dict EXCEPT ![Building] = Append(@, [name |-> name, attr |-> r.ret])]
    /\ last' = Event("declare", None, NoName, NoArgs, NoOutcome, NoSnapshot)
    /\ UNCHANGED <<held, patches, source, kwout, shape, cur>>

\* "@smartsuper.after def name(self, ...)" in the class body
DeclareAfter(name) ==
    /\ CanDeclare(name)
    /\ heap' = Append(heap, NewAfter(Function(<<Building, name>>)))
    /\ mode' = [mode EXCEPT ![<<Building, name>>] = "after"]
    /\ dict' = [dict EXCEPT ![Building] =
                   Append(@, [name |-> name, attr |-> Descriptor(Len(heap) + 1)])]
    /\ last' = Event("declare", None, NoName, NoArgs, NoOutcome, NoSnapshot)
    /\ UNCHANGED <<held, patches, source, kwout, shape, cur>>

\* the end of the class statement: type creation calls __set_name__ on
\* every attribute of the namespace that has it, in order, so the last name
\* an instance is stored under is the one it keeps
CreateClass ==
    /\ Building # None
    /\ heap' = [i \in 1..Len(heap) |->
                   IF \E k \in 1..Len(dict[Building]) :
                          dict[Building][k].attr = Descriptor(i)
                   THEN LET ks == {k \in 1..Len(dict[Building]) :
                                      dict[Building][k].attr = Descriptor(i)}
                            k == CHOOSE k \in ks : \A j \in ks : j <= k
                        IN  SetName(heap[i], Building, dict[Building][k].name)
                   ELSE heap[i]]
    /\ cur' = cur + 1
    /\ last' = Event("class", None, NoName, NoArgs, NoOutcome, NoSnapshot)
    /\ UNCHANGED <<held, patches, source, kwout, shape, dict, mode>>

\* smartsuper.all(T) when via is "all", smartsuper(T) when via is "call"
DecorateClass(T, via) ==
    /\ Loaded
    /\ T \in Defined
    /\ LET r == IF via = "all" THEN SmartsuperAll(dict, heap, mode, T)
                ELSE SmartsuperNew(dict, heap, mode, TypeObj(T))
       IN  /\ dict' = r.state.dict
           /\ heap' = r.state.heap
           /\ mode' = r.state.mode
           /\ last' = ScanEvent(T, via, r.ret, Snapshot)
    /\ UNCHANGED <<held, patches, source, kwout, shape, cur>>

\* T().name(*args, **kwargs)
Call(T, name, a) ==
    /\ Loaded
    /\ T \in Defined
    /\ LET attr == LookupIn(dict, Mro(T), name)
       IN  /\ attr.kind \in {"function", "smartsuper"}
           /\ last' = Event("call", T, name, a, Invoke(dict, heap, attr, T, a), NoSnapshot)
    /\ UNCHANGED <<held, patches, source, kwout, shape, cur, dict, heap, mode>>

Next ==
    \/ \E name \in Names : DeclarePlain(name)
    \/ \E name \in Names : DeclareBefore(name)
    \/ \E name \in Names : DeclareAfter(name)
    \/ CreateClass
    \/ \E T \in Types, via \in {"all", "call"} : DecorateClass(T, via)
    \/ \E T \in Types, name \in Names, a \in ArgSets : Call(T, name, a)

Spec == Init /\ [][Next]_vars

(***************************************************************************)
(* Class bodies that also hold data attributes and nested classes.         *)
(***************************************************************************)
RECURSIVE CountOther(_, _)
CountOther(D, S) ==
    IF S = {} THEN 0
    ELSE LET T == CHOOSE x \in S : TRUE
         IN  Cardinality({i \in 1..Len(D[T]) :
                             \/ D[T][i].attr.kind = "data"
                             \/ D[T][i].attr.kind = "type"
                             \/ /\ D[T][i].attr.kind = "smartsuper"
                                /\ heap[D[T][i].attr.id].method.kind = "type"})
             + CountOther(D, S \ {T})

NumOther == CountOther(dict, Types)

\* "name = v" in the class body
DeclareData(name, v) ==
    /\ CanDeclare(name)
    /\ NumOther < MaxOther
    /\ dict' = [dict EXCEPT ![Building] = Append(@, [name |-> name, attr |-> Data(v)])]
    /\ last' = Event("declare", None, NoName, NoArgs, NoOutcome, NoSnapshot)
    /\ UNCHANGED <<held, patches, source, kwout, shape, cur, heap, mode>>

\* "class name: pass" in the class body
DeclareNested(name) ==
    /\ CanDeclare(name)
    /\ NumOther < MaxOther
    /\ dict' = [dict EXCEPT ![Building] =
                   Append(@, [name |-> name, attr |-> Nested(<<Building, name>>)])]
    /\ last' = Event("declare", None, NoName, NoArgs, NoOutcome, NoSnapshot)
    /\ UNCHANGED <<held, patches, source, kwout, shape, cur, heap, mode>>

InitChain ==
    /\ shape = "chain"
    /\ cur = 1
    /\ dict = [T \in Types |-> <<>>]
    /\ heap = <<>>
    /\ mode = [f \in Funcs |-> "none"]
    /\ last = Event("init", None, NoName, NoArgs, NoOutcome, NoSnapshot)
    /\ source = <<>>
    /\ kwout = NoOut
    /\ held = NoHeld
    /\ patches = 0

NextMembers ==
    \/ Next
    \/ \E name \in Names, v \in {0, 1} : DeclareData(name, v)
    \/ \E name \in Names : DeclareNested(name)

SpecMembers == InitChain /\ [][NextMembers]_vars

(***************************************************************************)
(* Class bodies with a method whose body raises.                           *)
(***************************************************************************)
\* the ways a class body can store a function
Hows == {"plain", "before", "after"}

\* the function object behind a slot: the function itself or self.method
MethodOf(H, attr) == IF attr.kind = "smartsuper" THEN H[attr.id].method ELSE attr

RECURSIVE CountRaising(_, _)
CountRaising(D, S) ==
    IF S = {} THEN 0
    ELSE LET T == CHOOSE x \in S : TRUE
         IN  Cardinality({i \in 1..Len(D[T]) :
                             MethodOf(heap, D[T][i].attr) = Raising(<<T, D[T][i].name>>)})
             + CountRaising(D, S \ {T})

NumRaising == CountRaising(dict, Types)

\* "def name(self, ...): ...; raise BodyError" in the class body, plain,
\* under @smartsuper or under @smartsuper.after
DeclareRaising(name, how) ==
    /\ CanDeclare(name)
    /\ NumRaising < MaxRaising
    /\ LET f == Raising(<<Building, name>>)
           r == CASE how = "plain"  -> [state |-> [dict |-> dict, heap |-> heap, mode |-> mode],
                                       ret |-> f]
                  [] how = "before" -> SmartsuperNew(dict, heap, mode, f)
                  [] how = "after"  -> [state |-> [dict |-> dict,
                                                   heap |-> Append(heap, NewAfter(f)),
                                                   mode |-> [mode EXCEPT ![f.fn] = "after"]],
                                        ret |-> Descriptor(Len(heap) + 1)]
       IN  /\ heap' = r.state.heap
           /\ mode' = r.state.mode
           /\ dict' = [dict EXCEPT ![Building] = Append(@, [name |-> name, attr |-> r.ret])]
    /\ last' = Event("declare", None, NoName, NoArgs, NoOutcome, NoSnapshot)
    /\ UNCHANGED <<held, patches, source, kwout, shape, cur>>

NextRaise ==
    \/ Next
    \/ \E name \in Names, how \in Hows : DeclareRaising(name, how)

SpecRaise == InitChain /\ [][NextRaise]_vars

(***************************************************************************)
(* Class bodies that store an object that already exists: a function or a  *)
(* smartsuper instance taken from a class defined earlier.                 *)
(***************************************************************************)
\* the function or class an attribute runs as its own body
Underlying(H, attr) == IF attr.kind = "smartsuper" THEN H[attr.id].method.fn ELSE attr.fn

RECURSIVE CountAlias(_, _)
CountAlias(D, S) ==
    IF S = {} THEN 0
    ELSE LET T == CHOOSE x \in S : TRUE
         IN  Cardinality({i \in 1..Len(D[T]) :
                             /\ D[T][i].attr.kind \in {"function", "smartsuper"}
                             /\ Underlying(heap, D[T][i].attr) # <<T, D[T][i].name>>})
             + CountAlias(D, S \ {T})

NumAlias == CountAlias(dict, Types)

\* the functions defined so far, plain or wrapped
Existing ==
    {f \in Funcs : \E T \in Types : \E i \in 1..Len(dict[T]) :
        /\ dict[T][i].attr.kind \in {"function", "smartsuper"}
        /\ Underlying(heap, dict[T][i].attr) = f}

\* "name = f", "name = smartsuper(f)" or "name = smartsuper.after(f)" in the
\* class body, f a function defined earlier
DeclareShared(name, f, how) ==
    /\ CanDeclare(name)
    /\ NumAlias < MaxAlias
    /\ f \in Existing
    /\ LET r == CASE how = "plain"  -> [state |-> [dict |-> dict, heap |-> heap, mode |-> mode],
                                       ret |-> Function(f)]
                  [] how = "before" -> SmartsuperNew(dict, heap, mode, Function(f))
                  [] how = "after"  -> [state |-> [dict |-> dict,
                                                   heap |-> Append(heap, NewAfter(Function(f))),
                                                   mode |-> [mode EXCEPT ![f] = "after"]],
                                        ret |-> Descriptor(Len(heap) + 1)]
       IN  /\ heap' = r.state.heap
           /\ mode' = r.state.mode
           /\ dict' = [dict EXCEPT ![Building] = Append(@, [name |-> name, attr |-> r.ret])]
    /\ last' = Event("declare", None, NoName, NoArgs, NoOutcome, NoSnapshot)
    /\ UNCHANGED <<held, patches, source, kwout, shape, cur>>

\* "name = b" in the class body, b a smartsuper instance made earlier
DeclareAlias(name, i) ==
    /\ CanDeclare(name)
    /\ NumAlias < MaxAlias
    /\ i \in 1..Len(heap)
    /\ dict' = [dict EXCEPT ![Building] = Append(@, [name |-> name, attr |-> Descriptor(i)])]
    /\ last' = Event("declare", None, NoName, NoArgs, NoOutcome, NoSnapshot)
    /\ UNCHANGED <<held, patches, source, kwout, shape, cur, heap, mode>>

NextAlias ==
    \/ Next
    \/ \E name \in Names, f \in Funcs, how \in Hows : DeclareShared(name, f, how)
    \/ \E name \in Names, i \in 1..MaxDecl : DeclareAlias(name, i)

SpecAlias == InitChain /\ [][NextAlias]_vars

(***************************************************************************)
(* Classes patched after their definition, and wrappers kept between the   *)
(* attribute access and the call.                                          *)
(***************************************************************************)
\* setattr(T, name, attr) on the class dictionaries D
ClassSetAttr(D, T, name, attr) ==
    IF DictGet(D, T, name) = Absent
    THEN [D EXCEPT ![T] = Append(@, [name |-> name, attr |-> attr])]
    ELSE [D EXCEPT ![T] = [i \in 1..Len(@) |->
                              IF @[i].name = name THEN [name |-> name, attr |-> attr]
                              ELSE @[i]]]

\* delattr(T, name) on the class dictionaries D
ClassDelAttr(D, T, name) ==
    [D EXCEPT ![T] = SelectSeq(@, LAMBDA e : e.name # name)]

\* "T.name = f" for the module-level function f called name
SetAttr(T, name) ==
    /\ Loaded
    /\ T \in Defined
    /\ patches < MaxPatch
    /\ dict' = ClassSetAttr(dict, T, name, Function(<<Module, name>>))
    /\ patches' = patches + 1
    /\ last' = Event("setattr", T, name, NoArgs, NoOutcome, NoSnapshot)
    /\ UNCHANGED <<held, source, kwout, shape, cur, heap, mode>>

\* "del T.name" for a name T declares
DelAttr(T, name) ==
    /\ Loaded
    /\ T \in Defined
    /\ patches < MaxPatch
    /\ DictGet(dict, T, name) # Absent
    /\ dict' = ClassDelAttr(dict, T, name)
    /\ patches' = patches + 1
    /\ last' = Event("delattr", T, name, NoArgs, NoOutcome, NoSnapshot)
    /\ UNCHANGED <<held, source, kwout, shape, cur, heap, mode>>

\* "w = T().name" where the lookup finds a smartsuper instance: __get__
\* returns a fresh wrapper
Access(T, name) ==
    /\ Loaded
    /\ T \in Defined
    /\ LET attr == LookupIn(dict, Mro(T), name)
       IN  /\ attr.kind = "smartsuper"
           /\ held' = Held(attr.id, T, dict)
    /\ last' = Event("access", T, name, NoArgs, NoOutcome, NoSnapshot)
    /\ UNCHANGED <<patches, source, kwout, shape, cur, dict, heap, mode>>

\* "w(*args, **kwargs)" for the wrapper obtained last
CallHeld(a) ==
    /\ held # NoHeld
    /\ last' = Event("invoke", held.objT, heap[held.id].name, a,
                     InvokeHeld(dict, heap, held, a), NoSnapshot)
    /\ UNCHANGED <<held, patches, source, kwout, shape, cur, dict, heap, mode>>

NextPatch ==
    \/ \E name \in Names : DeclarePlain(name)
    \/ \E name \in Names : DeclareBefore(name)
    \/ \E name \in Names : DeclareAfter(name)
    \/ CreateClass
    \/ \E T \in Types, name \in Names : SetAttr(T, name)
    \/ \E T \in Types, name \in Names : DelAttr(T, name)
    \/ \E T \in Types, name \in Names : Access(T, name)
    \/ \E a \in ArgSets : CallHeld(a)

SpecPatch == InitChain /\ [][NextPatch]_vars

\* programs that mark no method themselves: every binding and every tag
\* comes from a class decoration
NextScans ==
    \/ \E name \in Names : DeclarePlain(name)
    \/ \E name \in Names, f \in Funcs : DeclareShared(name, f, "plain")
    \/ CreateClass
    \/ \E T \in Types, via \in {"all", "call"} : DecorateClass(T, via)
    \/ \E T \in Types, name \in Names, a \in ArgSets : Call(T, name, a)

SpecScans == InitChain /\ [][NextScans]_vars

(***************************************************************************)
(* Calls of dictExtract and of a function decorated with extract_kwargs.   *)
(***************************************************************************)
\* the prefixes a decorator declares and the keywords a caller passes
KwNames == {<<"a">>, <<"b">>}
KwKeys ==
    {<<"a", "_", "x">>, <<"a", "_">>, <<"b", "_", "x">>, <<"x">>, GrpKey(<<"a">>)}

\* dictionaries of at most MaxKeys keywords with integer values
KwDicts ==
    {d \in UNION {[1..n -> {Item(k, IntVal(v)) : k \in KwKeys, v \in 1..MaxVal}] :
                     n \in 0..MaxKeys} :
        \A i, j \in 1..Len(d) : i # j => d[i].key # d[j].key}

\* extract_kwargs(a=...), extract_kwargs(a=..., b=...), and so on
ExtractValues == {ValTrue, ValFalse, ValDict(<<Item("pop", TRUE)>>)}
KwSpecs ==
    {s \in UNION {[1..n -> {Item(k, v) : k \in KwNames, v \in ExtractValues}] : n \in 1..2} :
        \A i, j \in 1..Len(s) : i # j => s[i].key # s[j].key}

InitKw ==
    /\ shape = "chain"
    /\ cur = 1
    /\ dict = [T \in Types |-> <<>>]
    /\ heap = <<>>
    /\ mode = [f \in Funcs |-> "none"]
    /\ last = Event("init", None, NoName, NoArgs, NoOutcome, NoSnapshot)
    /\ source \in KwDicts
    /\ kwout = NoOut
    /\ held = NoHeld
    /\ patches = 0

\* dictExtract(source, prefix, slice_prefix, pop)
CallDictExtract(prefix, slice_prefix, pop) ==
    /\ LET r == DictExtract(source, prefix, slice_prefix, pop)
       IN  /\ source' = r.source
           /\ kwout' = KwEvent("dictExtract", source, prefix, slice_prefix, pop, <<>>, r)
    /\ UNCHANGED <<held, patches, shape, cur, dict, heap, mode, last>>

\* func(**source) for func decorated with extract_kwargs(**specs); the
\* wrapper works on its own kwargs dictionary
CallExtractKwargs(specs) ==
    /\ LET r == ExtractKwargsWrapper(specs, source)
       IN  kwout' = KwEvent("extract_kwargs", source, <<>>, FALSE, FALSE, specs,
                          [result |-> r.kwargs, error |-> r.error])
    /\ UNCHANGED <<held, patches, source, shape, cur, dict, heap, mode, last>>

NextKw ==
    \/ \E k \in KwNames, slice_prefix \in BOOLEAN, pop \in BOOLEAN :
          CallDictExtract(PrefixOf(k), slice_prefix, pop)
    \/ \E specs \in KwSpecs : CallExtractKwargs(specs)

SpecKw == InitKw /\ [][NextKw]_vars

(***************************************************************************)
(* Vocabulary of the properties.                                           *)
(***************************************************************************)
\* how class T declares name: "absent", "plain", or the mode its function was
\* marked with, "before" or "after"
LevelMode(T, name) ==
    LET idx == {i \in 1..Len(dict[T]) : dict[T][i].name = name}
    IN  IF idx = {} THEN "absent"
        ELSE LET attr == dict[T][CHOOSE i \in idx : TRUE].attr
             IN  IF attr.kind = "smartsuper"
                 THEN ModeAttr(mode, heap[attr.id].method)
                 ELSE "plain"

\* T and its ancestors form a single-inheritance chain
IsLinear(T) ==
    \A k \in 1..Len(Mro(T)) : Mro(Mro(T)[k]) = SubSeq(Mro(T), k, Len(Mro(T)))

Reverse(s) == [i \in 1..Len(s) |-> s[Len(s) - i + 1]]

\* the classes whose bodies ran during the last call, in order
Labels(tr) == [i \in 1..Len(tr) |-> tr[i].fn[1]]

\* every body that ran during the last call is a definition of the called name
SameName(tr, name) == \A i \in 1..Len(tr) : tr[i].fn[2] = name

\* every class of T's chain declares name, and all but the root in mode m
AllLevels(T, name, m) ==
    /\ Len(Mro(T)) >= 2
    /\ IsLinear(T)
    /\ \A k \in 1..Len(Mro(T)) :
          IF k < Len(Mro(T)) THEN LevelMode(Mro(T)[k], name) = m
          ELSE LevelMode(Mro(T)[k], name) # "absent"

\* the classes strictly above owner in the ancestor order of T that declare name
DefinersAbove(T, owner, name) ==
    {k \in 1..Len(Mro(T)) :
        /\ \E j \in 1..(k - 1) : Mro(T)[j] = owner
        /\ LevelMode(Mro(T)[k], name) # "absent"}

\* the class whose declaration of name an instance of T resolves to
Resolved(T, name) ==
    LET ks == {k \in 1..Len(Mro(T)) : LevelMode(Mro(T)[k], name) # "absent"}
    IN  Mro(T)[CHOOSE k \in ks : \A j \in ks : k <= j]

IsCall == last.op = "call"

\* the last call resolved to a method marked by smartsuper
IsMarkedCall == IsCall /\ LevelMode(Resolved(last.T, last.name), last.name) \in {"before", "after"}

(***************************************************************************)
(* Properties.                                                             *)
(***************************************************************************)
\* C1: in a single-inheritance chain whose overriding levels are all marked
\* before, a call on a leaf instance runs every level's body exactly once,
\* root first and leaf last
C1_BeforeOrder ==
    (IsCall /\ AllLevels(last.T, last.name, "before"))
        => /\ last.error = None
           /\ SameName(last.trace, last.name)
           /\ Labels(last.trace) = Reverse(Mro(last.T))

C1_Witness ==
    /\ IsCall /\ AllLevels(last.T, last.name, "before")
    /\ Len(Mro(last.T)) = 3
    /\ Labels(last.trace) = <<"A", "B", "C">>

\* C2: in a single-inheritance chain whose overriding levels are all marked
\* after, a call on a leaf instance runs every level's body exactly once,
\* leaf first and root last
C2_AfterOrder ==
    (IsCall /\ AllLevels(last.T, last.name, "after"))
        => /\ last.error = None
           /\ SameName(last.trace, last.name)
           /\ Labels(last.trace) = Mro(last.T)

C2_Witness ==
    /\ IsCall /\ AllLevels(last.T, last.name, "after")
    /\ Len(Mro(last.T)) = 3
    /\ Labels(last.trace) = <<"C", "B", "A">>

\* C3: when no class above the owner defines the name, a marked method runs
\* only its own body, raises nothing and returns the body's result
C3_AbsentAncestorNoop ==
    (IsMarkedCall /\ DefinersAbove(last.T, Resolved(last.T, last.name), last.name) = {})
        => /\ last.error = None
           /\ last.trace = <<Entry(<<Resolved(last.T, last.name), last.name>>, last.T, last.args)>>
           /\ last.result = Ret(<<Resolved(last.T, last.name), last.name>>)

C3_Witness ==
    /\ IsMarkedCall
    /\ DefinersAbove(last.T, Resolved(last.T, last.name), last.name) = {}
    /\ LevelMode(Resolved(last.T, last.name), last.name) = "after"
    /\ Resolved(last.T, last.name) # "A"
    /\ Len(last.trace) = 1

\* C4: a marked method returns what the override's own body returns, never
\* the ancestor's value
C4_ReturnValue ==
    IsMarkedCall
        => /\ last.error = None
           /\ last.result = Ret(<<Resolved(last.T, last.name), last.name>>)

C4_Witness ==
    /\ IsMarkedCall
    /\ DefinersAbove(last.T, Resolved(last.T, last.name), last.name) # {}
    /\ LevelMode(Resolved(last.T, last.name), last.name) = "after"
    /\ last.result = Ret(<<last.T, last.name>>)

\* C5: the ancestor implementation and the override body both receive the
\* caller's instance, positional and keyword arguments unchanged
C5_ArgumentPassThrough ==
    IsMarkedCall
        => /\ \A i \in 1..Len(last.trace) :
                 /\ last.trace[i].self = last.T
                 /\ last.trace[i].args = last.args.args
                 /\ last.trace[i].kwargs = last.args.kwargs
           /\ \E i \in 1..Len(last.trace) :
                 last.trace[i].fn = <<Resolved(last.T, last.name), last.name>>
           /\ DefinersAbove(last.T, Resolved(last.T, last.name), last.name) # {}
                 => Len(last.trace) >= 2

C5_Witness ==
    /\ IsMarkedCall
    /\ last.args = SomeArgs
    /\ Len(last.trace) >= 2
    /\ LevelMode(Resolved(last.T, last.name), last.name) = "before"

\* the first definition of name strictly above owner in T's ancestor order
NextAbove(D, T, owner, name) ==
    LET ks == {k \in 1..Len(Mro(T)) :
                  /\ \E j \in 1..(k - 1) : Mro(T)[j] = owner
                  /\ \E j \in 1..Len(D[Mro(T)[k]]) : D[Mro(T)[k]][j].name = name}
    IN  IF ks = {} THEN Absent
        ELSE LET k == CHOOSE k \in ks : \A j \in ks : k <= j
                 c == Mro(T)[k]
             IN  D[c][CHOOSE j \in 1..Len(D[c]) : D[c][j].name = name].attr

\* what running the first definition above owner records, nothing if there is none
AncestorTrace(T, owner, name, a) ==
    IF NextAbove(dict, T, owner, name) = Absent THEN <<>>
    ELSE Invoke(dict, heap, NextAbove(dict, T, owner, name), T, a).trace

\* the last call ran a marked method of class O on an instance of last.T:
\* the ancestor it ran is the first definition after O in last.T's order
RuntimeLookup ==
    IsMarkedCall =>
        LET O == Resolved(last.T, last.name)
            own == <<Entry(<<O, last.name>>, last.T, last.args)>>
            anc == AncestorTrace(last.T, O, last.name, last.args)
        IN  IF LevelMode(O, last.name) = "before"
            THEN last.trace = anc \o own
            ELSE last.trace = own \o anc

\* what a call of name on an instance of O records
TraceOn(O, name, a) == Invoke(dict, heap, LookupIn(dict, Mro(O), name), O, a).trace

\* every definition after O in T's ancestor order belongs to O's ancestors
NoForeignDefiner(T, O, name) ==
    \A k \in DefinersAbove(T, O, name) : \E j \in 1..Len(Mro(O)) : Mro(O)[j] = Mro(T)[k]

DiamondCase(T, name) ==
    /\ shape = "diamond"
    /\ T = "D"
    /\ LevelMode("A", name) = "plain"
    /\ LevelMode("B", name) = "before"
    /\ LevelMode("C", name) = "before"
    /\ LevelMode("D", name) = "absent"

\* C6 as stated: the ancestor is looked up in the instance's ancestor order
\* after the owner; every further-derived class that does not override gives
\* the trace of an instance of the owner; the diamond runs A, C, B
C6_Original ==
    /\ RuntimeLookup
    /\ (IsCall /\ Resolved(last.T, last.name) # last.T)
          => Labels(last.trace) = Labels(TraceOn(Resolved(last.T, last.name), last.name, last.args))
    /\ (IsCall /\ DiamondCase(last.T, last.name))
          => Labels(last.trace) = <<"A", "C", "B">>

\* C6 amended: the ancestor is looked up in the instance's ancestor order
\* after the owner; a further-derived class that does not override gives the
\* trace of an instance of the owner when no class outside the owner's
\* ancestors defines the name after the owner; the diamond runs A, C, B
C6_RuntimeLookup ==
    /\ RuntimeLookup
    /\ (/\ IsCall
        /\ Resolved(last.T, last.name) # last.T
        /\ NoForeignDefiner(last.T, Resolved(last.T, last.name), last.name))
          => Labels(last.trace) = Labels(TraceOn(Resolved(last.T, last.name), last.name, last.args))
    /\ (IsCall /\ DiamondCase(last.T, last.name))
          => Labels(last.trace) = <<"A", "C", "B">>

C6_Witness ==
    /\ IsCall
    /\ DiamondCase(last.T, last.name)
    /\ Labels(last.trace) = <<"A", "C", "B">>

\* the trace the one-level rule gives for a call on a class with ancestor order mro
RECURSIVE RefTrace(_, _)
RefTrace(mro, name) ==
    IF mro = <<>> THEN <<>>
    ELSE CASE LevelMode(Head(mro), name) = "absent" -> RefTrace(Tail(mro), name)
           [] LevelMode(Head(mro), name) = "plain"  -> <<Head(mro)>>
           [] LevelMode(Head(mro), name) = "before" -> RefTrace(Tail(mro), name) \o <<Head(mro)>>
           [] LevelMode(Head(mro), name) = "after"  -> <<Head(mro)>> \o RefTrace(Tail(mro), name)

ChainModes(T, name, modes) ==
    /\ IsLinear(T)
    /\ Len(Mro(T)) = Len(modes)
    /\ \A k \in 1..Len(modes) : LevelMode(Mro(T)[k], name) = modes[k]

IsScan == last.op = "decorate"

\* the name starts and ends with a double underscore
IsSpecialName(name) ==
    /\ Len(name) >= 2
    /\ name[1] = "_" /\ name[2] = "_"
    /\ name[Len(name) - 1] = "_" /\ name[Len(name)] = "_"

\* before the last scan some proper ancestor of T declared name
InAncestorBefore(T, name) ==
    \E k \in 2..Len(Mro(T)) :
        \E j \in 1..Len(last.pre.dict[Mro(T)[k]]) : last.pre.dict[Mro(T)[k]][j].name = name

\* what calling the i-th member of T on an instance of T records now
MemberTrace(T, i, a) == Invoke(dict, heap, dict[T][i].attr, T, a).trace

\* the scan kept the same names in the same places
SameKeys(T) ==
    /\ Len(dict[T]) = Len(last.pre.dict[T])
    /\ \A i \in 1..Len(dict[T]) : dict[T][i].name = last.pre.dict[T][i].name

BodyOf(H, attr) == IF attr.kind = "smartsuper" THEN H[attr.id].method.fn ELSE attr.fn

\* how many times the body of function f ran
Count(tr, f) == Cardinality({k \in 1..Len(tr) : tr[k].fn = f})

\* C9: the scan leaves every member that already carried a mode tag as it
\* was: the same object, still after or before, running the ancestor once
C9_ScanKeepsExplicitMarks ==
    IsScan =>
        \A i \in 1..Len(last.pre.dict[last.T]) :
            LET T == last.T
                e == last.pre.dict[T][i]
                f == BodyOf(last.pre.heap, e.attr)
                anc == NextAbove(dict, T, T, e.name)
            IN  (e.attr.kind \in {"function", "smartsuper"} /\ last.pre.mode[f] # "none")
                    => /\ dict[T][i] = e
                       /\ mode[f] = last.pre.mode[f]
                       /\ e.attr.kind = "smartsuper"
                             => /\ heap[e.attr.id] = last.pre.heap[e.attr.id]
                                /\ \A a \in ArgSets :
                                      /\ mode[f] = "after" =>
                                            MemberTrace(T, i, a) =
                                                <<Entry(f, T, a)>> \o AncestorTrace(T, T, e.name, a)
                                      /\ mode[f] = "before" =>
                                            MemberTrace(T, i, a) =
                                                AncestorTrace(T, T, e.name, a) \o <<Entry(f, T, a)>>
                                      /\ anc # Absent =>
                                            Count(MemberTrace(T, i, a), BodyOf(heap, anc)) = 1
                                      /\ Count(MemberTrace(T, i, a), f) = 1

C9_Witness ==
    /\ IsScan
    /\ \E i \in 1..Len(last.pre.dict[last.T]) :
          /\ last.pre.dict[last.T][i].attr.kind = "smartsuper"
          /\ last.pre.mode[BodyOf(last.pre.heap, last.pre.dict[last.T][i].attr)] = "after"
          /\ InAncestorBefore(last.T, last.pre.dict[last.T][i].name)
          /\ dict[last.T][i] = last.pre.dict[last.T][i]
          /\ Len(MemberTrace(last.T, i, NoArgs)) = 2

\* C10: the scan never touches a member with a special name, even when an
\* ancestor defines the name: a plain one still runs only its own body
C10_ScanSkipsSpecialNames ==
    IsScan =>
        \A i \in 1..Len(last.pre.dict[last.T]) :
            LET T == last.T
                e == last.pre.dict[T][i]
            IN  IsSpecialName(e.name)
                    => /\ dict[T][i] = e
                       /\ Len(heap) >= Len(last.pre.heap)
                       /\ e.attr.kind = "smartsuper"
                             => heap[e.attr.id] = last.pre.heap[e.attr.id]
                       /\ e.attr.kind = "function"
                             => /\ mode[e.attr.fn] = last.pre.mode[e.attr.fn]
                                /\ \A a \in ArgSets :
                                      MemberTrace(T, i, a) = <<Entry(e.attr.fn, T, a)>>

C10_Witness ==
    /\ IsScan
    /\ \E i \in 1..Len(last.pre.dict[last.T]) :
          /\ IsSpecialName(last.pre.dict[last.T][i].name)
          /\ last.pre.dict[last.T][i].attr.kind = "function"
          /\ InAncestorBefore(last.T, last.pre.dict[last.T][i].name)
          /\ dict[last.T][i] = last.pre.dict[last.T][i]
          /\ MemberTrace(last.T, i, NoArgs) =
                 <<Entry(last.pre.dict[last.T][i].attr.fn, last.T, NoArgs)>>

\* C12: decorating the same class again changes nothing: the class
\* dictionary, every smartsuper instance and every tag stay as the first
\* decoration left them, and each call still runs the ancestor exactly once
C12_ScanIdempotent ==
    (IsScan /\ last.again)
        => /\ dict = last.pre.dict
           /\ heap = last.pre.heap
           /\ mode = last.pre.mode
           /\ \A i \in 1..Len(dict[last.T]) : \A a \in ArgSets :
                 LET anc == NextAbove(dict, last.T, last.T, dict[last.T][i].name)
                 IN  (dict[last.T][i].attr.kind = "smartsuper" /\ anc # Absent)
                        => /\ Count(MemberTrace(last.T, i, a), BodyOf(heap, anc)) = 1
                           /\ MemberTrace(last.T, i, a) =
                                 Invoke(last.pre.dict, last.pre.heap,
                                        last.pre.dict[last.T][i].attr, last.T, a).trace

C12_Witness ==
    /\ IsScan /\ last.again
    /\ \E i \in 1..Len(dict[last.T]) :
          /\ dict[last.T][i].attr.kind = "smartsuper"
          /\ dict[last.T][i].attr.id = Len(heap)
          /\ mode[BodyOf(heap, dict[last.T][i].attr)] = "before"
          /\ Len(MemberTrace(last.T, i, NoArgs)) = 2
          /\ \A j \in 1..Len(heap) : j # Len(heap) => heap[j].owner # last.T

\* C13: smartsuper(T) and smartsuper.all(T) do the same: each returns the
\* class object itself and leaves the classes as the other would
C13_ClassDecoratorEquivalence ==
    IsScan =>
        LET P == last.pre
            done == [state |-> Snapshot, ret |-> last.result]
        IN  /\ last.result = TypeObj(last.T)
            /\ last.via = "all" => SmartsuperNew(P.dict, P.heap, P.mode, TypeObj(last.T)) = done
            /\ last.via = "call" => SmartsuperAll(P.dict, P.heap, P.mode, last.T) = done

C13_Witness ==
    /\ IsScan
    /\ last.via = "call"
    /\ last.result = TypeObj(last.T)
    /\ Len(heap) > Len(last.pre.heap)
    /\ dict[last.T] # last.pre.dict[last.T]

\* C11: the scan never wraps, tags or replaces a data attribute or a nested
\* class, even when an ancestor has an attribute of the same name
C11_ScanSkipsNonCallables ==
    IsScan =>
        \A i \in 1..Len(last.pre.dict[last.T]) :
            LET e == last.pre.dict[last.T][i]
            IN  e.attr.kind \in {"data", "type"}
                    => /\ dict[last.T][i] = e
                       /\ e.attr.kind = "type" => mode[e.attr.fn] = last.pre.mode[e.attr.fn]

\* the last call ran a smartsuper instance found on the instance's class
IsBinderCall == IsCall /\ LookupIn(dict, Mro(last.T), last.name).kind = "smartsuper"

\* C15: whatever the ancestors hold under the name, a call of a marked or
\* scanned method raises nothing but what the bodies raise
C15_BinderRaisesNothing ==
    IsBinderCall => last.error \in {None, "BodyError"}

\* C14: once a smartsuper instance has its owner and name, binding it again
\* is rejected: its owner, name and mode never change
C14_BoundIsImmutable ==
    [][\A i \in 1..Len(heap) : heap[i].owner # None => heap'[i] = heap[i]]_vars

\* the smartsuper instances the last scan made
NewIds == (Len(last.pre.heap) + 1)..Len(heap)

\* C20: a tag is "before" or "after"; a scan never changes the tag of a
\* function that had one, and wraps each declared name at most once
C20_TagInvariant ==
    /\ \A f \in Funcs : mode[f] \in {"none", "before", "after"}
    /\ IsScan =>
          /\ \A f \in Funcs : last.pre.mode[f] # "none" => mode[f] = last.pre.mode[f]
          /\ SameKeys(last.T)
          /\ \A T \in Types : T # last.T => dict[T] = last.pre.dict[T]
          /\ \A i \in NewIds :
                /\ heap[i].owner = last.T
                /\ Cardinality({k \in 1..Len(dict[last.T]) :
                                   dict[last.T][k].attr = Descriptor(i)}) = 1
                /\ \A k \in 1..Len(dict[last.T]) :
                      dict[last.T][k].attr = Descriptor(i)
                          => /\ dict[last.T][k].name = heap[i].name
                             /\ last.pre.dict[last.T][k].attr = heap[i].method
          /\ \A i, j \in NewIds : i # j => heap[i].name # heap[j].name

C20_Witness ==
    /\ IsScan
    /\ \E k \in 1..Len(dict[last.T]) :
          /\ dict[last.T][k].attr.kind = "function"
          /\ last.pre.mode[dict[last.T][k].attr.fn] = "after"
          /\ mode[dict[last.T][k].attr.fn] = "after"
          /\ ~IsSpecialName(dict[last.T][k].name)
          /\ InAncestorBefore(last.T, dict[last.T][k].name)

\* the attribute the last call resolved to, and its smartsuper instance
CalledAttr == LookupIn(dict, Mro(last.T), last.name)
CalledBinding == heap[CalledAttr.id]

\* the positions of the trace where a raising body ran
RaisedAt ==
    {k \in 1..Len(last.trace) :
        \E T \in Types : \E i \in 1..Len(dict[T]) :
            /\ MethodOf(heap, dict[T][i].attr) = Raising(last.trace[k].fn)}

IsBinderCallOf(after) ==
    /\ IsCall
    /\ CalledAttr.kind = "smartsuper"
    /\ CalledBinding.after_call = after

\* C16: an exception raised by a body ends the call there and reaches the
\* caller; in before-mode a raising ancestor keeps the override from running,
\* in after-mode a raising override keeps the ancestor from being invoked and
\* a raising ancestor discards the override's result
C16_FailurePropagation ==
    IsCall =>
        /\ \A k \in RaisedAt : k = Len(last.trace)
        /\ RaisedAt # {} <=> last.error = "BodyError"
        /\ last.error = "BodyError" => last.result = NoValue
        /\ IsBinderCallOf(FALSE) /\ last.error = "BodyError"
              /\ last.trace[Len(last.trace)].fn # CalledBinding.method.fn
              => \A k \in 1..Len(last.trace) : last.trace[k].fn # CalledBinding.method.fn
        /\ IsBinderCallOf(TRUE) /\ CalledBinding.method = Raising(CalledBinding.method.fn)
              => /\ Len(last.trace) = 1
                 /\ last.trace[1].fn = CalledBinding.method.fn
        /\ IsBinderCallOf(TRUE) /\ last.error = "BodyError"
              => last.result # Ret(CalledBinding.method.fn)

C16_Witness ==
    /\ IsBinderCallOf(FALSE)
    /\ last.error = "BodyError"
    /\ CalledBinding.method = Function(CalledBinding.method.fn)
    /\ Len(last.trace) >= 1
    /\ \A k \in 1..Len(last.trace) : last.trace[k].fn # CalledBinding.method.fn

\* the items of a dictionary
Items(d) == {d[i] : i \in 1..Len(d)}

IsDictExtract == kwout.op = "dictExtract"

\* the items of the source the call was given whose key starts with the prefix
Matching == {e \in Items(kwout.pre) : StartsWith(e.key, kwout.prefix)}

\* C19: dictExtract returns exactly the matching items, values unchanged,
\* keys without the prefix when slice_prefix is true; with pop the source
\* keeps exactly the other items, without pop it is unchanged
C19_DictExtractPartitions ==
    IsDictExtract =>
        /\ kwout.error = None
        /\ Items(kwout.result) =
              {Item(IF kwout.slice_prefix THEN SliceFrom(e.key, kwout.prefix) ELSE e.key, e.val) :
                  e \in Matching}
        /\ Len(kwout.result) = Cardinality(Matching)
        /\ kwout.pop => /\ Items(source) = Items(kwout.pre) \ Matching
                      /\ Len(source) = Len(kwout.pre) - Cardinality(Matching)
        /\ ~kwout.pop => source = kwout.pre

C19_Witness ==
    /\ IsDictExtract
    /\ kwout.pop
    /\ kwout.slice_prefix
    /\ Cardinality(Matching) = 1
    /\ Len(kwout.pre) = 2
    /\ kwout.pre[1].val # kwout.pre[2].val
    /\ kwout.result # <<>>
    /\ Len(source) = 1

IsExtractKwargs == kwout.op = "extract_kwargs"

\* the declared prefix names of the last decorated call
Declared == {kwout.specs[i].key : i \in 1..Len(kwout.specs)}

\* C17: with every declared prefix set to True, each keyword p_rest of a
\* declared prefix p arrives in p_kwargs under rest and is no longer among
\* the other keywords, and every other keyword arrives unchanged
C17_ExtractKwargsGrouping ==
    IsExtractKwargs /\ (\A i \in 1..Len(kwout.specs) : kwout.specs[i].val = ValTrue)
                    /\ (\A p \in Declared : ~HasKey(kwout.pre, GrpKey(p)))
        => /\ kwout.error = None
           /\ \A e \in Items(kwout.pre) :
                 /\ \A p \in Declared :
                       StartsWith(e.key, PrefixOf(p))
                           => /\ GetOr(kwout.result, GrpKey(p), NoneVal).kind = "dict"
                              /\ Item(SliceFrom(e.key, PrefixOf(p)), e.val)
                                    \in Items(GetOr(kwout.result, GrpKey(p), NoneVal).d)
                              /\ ~HasKey(kwout.result, e.key)
                 /\ (\A p \in Declared : ~StartsWith(e.key, PrefixOf(p)))
                       => e \in Items(kwout.result)

\* C18: when no keyword starts with the declared prefix and no p_kwargs is
\* passed, the function receives p_kwargs as None and the other keywords
\* unchanged
C18_NothingToExtractGivesNone ==
    IsExtractKwargs /\ Len(kwout.specs) = 1 /\ kwout.specs[1].val = ValTrue
                    /\ (\A e \in Items(kwout.pre) : ~StartsWith(e.key, PrefixOf(kwout.specs[1].key)))
        => /\ kwout.error = None
           /\ GetOr(kwout.result, GrpKey(kwout.specs[1].key), NoneVal) = NoneVal
           /\ \A e \in Items(kwout.pre) : e \in Items(kwout.result)

\* C22: with no explicit marks anywhere, a scan of T wraps every non-special
\* function of T whose name an ancestor has in a before binding owned by T,
\* whichever other classes were scanned earlier; so a function declared in
\* two classes ends up wrapped in both
C22_ScansIndependent ==
    IsScan =>
        \A i \in 1..Len(last.pre.dict[last.T]) :
            LET T == last.T
                e == last.pre.dict[T][i]
                now == dict[T][i].attr
            IN  (/\ e.attr.kind = "function"
                 /\ ~IsSpecialName(e.name)
                 /\ InAncestorBefore(T, e.name))
                   => /\ now.kind = "smartsuper"
                      /\ heap[now.id] = [method |-> e.attr, after_call |-> FALSE,
                                         owner |-> T, name |-> e.name]

IsInvoke == last.op = "invoke"

\* what the first definition of the held binding's name after its owner, as
\* the classes are now, records when called
AncestorNow ==
    LET b == heap[held.id]
        anc == NextAbove(dict, held.objT, b.owner, b.name)
    IN  IF anc = Absent THEN <<>>
        ELSE Invoke(dict, heap, anc, held.objT, last.args).trace

\* C21: a wrapper obtained earlier runs the ancestor implementation that is
\* there when it is called, or none if there is none then, whatever the
\* classes held when the method was marked, bound or accessed
C21_LookupAtCallTime ==
    IsInvoke =>
        LET b == heap[held.id]
            own == <<Entry(b.method.fn, held.objT, last.args)>>
        IN  /\ last.error = None
            /\ last.trace = IF b.after_call THEN own \o AncestorNow ELSE AncestorNow \o own

C21_Witness ==
    /\ IsInvoke
    /\ ~heap[held.id].after_call
    /\ NextAbove(held.seen, held.objT, heap[held.id].owner, heap[held.id].name).kind = "function"
    /\ NextAbove(dict, held.objT, heap[held.id].owner, heap[held.id].name)
          = Function(<<Module, heap[held.id].name>>)
    /\ last.trace = <<Entry(<<Module, heap[held.id].name>>, held.objT, last.args),
                      Entry(heap[held.id].method.fn, held.objT, last.args)>>

====
